---- MODULE Spec2Model ----
(***************************************************************************)
(* State-machine model of not-env-sdk-js, src/src/register.ts: the module  *)
(* captures process.env, starts the asynchronous register() at load time,  *)
(* and on a successful fetch replaces process.env by a Proxy whose traps   *)
(* (get, set, has, ownKeys, getOwnPropertyDescriptor) resolve against the  *)
(* fetched map notEnvVars and the captured copy originalEnv.               *)
(***************************************************************************)
EXTENDS Integers, Sequences, FiniteSets, TLC

\* ---------------------------------------------------------------- bounds
\* longest `variables` list a response carries
MaxVars == 2
\* number of invocations of register() in one process (the one at load included)
MaxCalls == 2

\* ------------------------------------------------------------ value sets
URL_KEY == "NOT_ENV_URL"
API_KEY == "NOT_ENV_API_KEY"
PreservedKeys == {URL_KEY, API_KEY}
OtherKeys == {"DB_HOST"}
Keys == PreservedKeys \cup OtherKeys
\* the keys the configuration service may provision
ResponseKeys == Keys

\* JavaScript `undefined` (an absent property, a missing map entry)
Undef == "undefined"

\* strings the application assigns to a variable: the empty string, or a
\* service address for NOT_ENV_URL and a credential for any other key
EnvValues(k) == IF k = URL_KEY THEN {"", "http://x"} ELSE {"", "k1"}
\* strings a fetched variable may hold
VarValues == {"localhost", "other"}
\* what `new URL(url)` accepts among the values NOT_ENV_URL takes
WellFormedUrls == {"http://x"}

\* the OS environment at process start: NOT_ENV_URL unset, empty, well-formed
\* or malformed; NOT_ENV_API_KEY unset, empty or "k1"; DB_HOST set
OsEnvs ==
    { e \in [Keys -> {Undef, "", "http://x", "localhost", "k1"}] :
        /\ e[URL_KEY] \in {Undef, "", "http://x", "localhost"}
        /\ e[API_KEY] \in {Undef, "", "k1"}
        /\ e["DB_HOST"] = "localhost" }

\* the pairs a response may carry: DB_HOST with either value, an entry named
\* like a preserved key with the value "other"
RawVariable ==
    { v \in [key : ResponseKeys, value : VarValues] :
        v.key \in PreservedKeys => v.value = "other" }

\* ------------------------------------------------- Map<string, string>
\* A JavaScript Map keeps insertion order; set() on a present key replaces
\* the value in place.  A map is a sequence of [key, value] with distinct keys.
MapIndex(m, k) == CHOOSE i \in 1..Len(m) : m[i].key = k

MapHas(m, k) == \E i \in 1..Len(m) : m[i].key = k

MapGet(m, k) == IF MapHas(m, k) THEN m[MapIndex(m, k)].value ELSE Undef

MapKeys(m) == [i \in 1..Len(m) |-> m[i].key]

MapSet(m, k, v) ==
    IF MapHas(m, k)
    THEN [m EXCEPT ![MapIndex(m, k)] = [key |-> k, value |-> v]]
    ELSE Append(m, [key |-> k, value |-> v])

\* for (const v of data.variables) varMap.set(v.key, v.value)
RECURSIVE BuildVarMap(_, _)
BuildVarMap(varMap, variables) ==
    IF variables = <<>> THEN varMap
    ELSE BuildVarMap(MapSet(varMap, Head(variables).key, Head(variables).value),
                     Tail(variables))

VariableLists == UNION { [1..n -> RawVariable] : n \in 0..MaxVars }

\* let notEnvVars: Map<string, string> | null = null
NullVars == [null |-> TRUE, entries |-> <<>>]
MapVars(m) == [null |-> FALSE, entries |-> m]

\* ------------------------------------------------------ the Proxy handler
\* The traps close over the module-level originalEnv and notEnvVars; here
\* they take them as env and vars.  `prop in originalEnv` is env[prop] # Undef.
IsPreserved(prop) == prop = URL_KEY \/ prop = API_KEY

\* a get trap that falls back to the captured OS environment
HandlerGetOsFallback(env, vars, prop) ==
    IF IsPreserved(prop) THEN env[prop]
    ELSE IF ~vars.null /\ MapHas(vars.entries, prop)
         THEN MapGet(vars.entries, prop)
         ELSE env[prop]

\* a get trap that looks into the fetched map before the preserved keys
HandlerGetStoreFirst(env, vars, prop) ==
    IF ~vars.null /\ MapHas(vars.entries, prop) THEN MapGet(vars.entries, prop)
    ELSE IF IsPreserved(prop) THEN env[prop]
    ELSE Undef

HandlerGet(env, vars, prop) ==
    IF IsPreserved(prop) THEN env[prop]
    ELSE IF ~vars.null /\ MapHas(vars.entries, prop)
         THEN MapGet(vars.entries, prop)
         ELSE Undef

\* a set trap that stores every key
HandlerSetAnyKey(env, prop, value) ==
    [env |-> [env EXCEPT ![prop] = value], ok |-> TRUE]

\* a set trap that reports success for a preserved key without storing it
HandlerSetDropsValue(env, prop, value) ==
    [env |-> env, ok |-> IsPreserved(prop)]

\* a set trap that stores the value under both preserved names
HandlerSetBothPreserved(env, prop, value) ==
    IF IsPreserved(prop)
    THEN [env |-> [k \in DOMAIN env |-> IF IsPreserved(k) THEN value ELSE env[k]],
          ok |-> TRUE]
    ELSE [env |-> env, ok |-> FALSE]

\* the trap's return value and the originalEnv it leaves behind
HandlerSet(env, prop, value) ==
    IF IsPreserved(prop)
    THEN [env |-> [env EXCEPT ![prop] = value], ok |-> TRUE]
    ELSE [env |-> env, ok |-> FALSE]

\* a has trap that also finds the keys of the captured OS environment
HandlerHasOsFallback(env, vars, prop) ==
    IF IsPreserved(prop) THEN env[prop] # Undef
    ELSE (~vars.null /\ MapHas(vars.entries, prop)) \/ env[prop] # Undef

\* a has trap that tests the preserved value for truthiness
HandlerHasTruthy(env, vars, prop) ==
    IF IsPreserved(prop) THEN ~(env[prop] = Undef \/ env[prop] = "")
    ELSE IF ~vars.null THEN MapHas(vars.entries, prop) ELSE FALSE

HandlerHas(env, vars, prop) ==
    IF IsPreserved(prop) THEN env[prop] # Undef
    ELSE IF ~vars.null THEN MapHas(vars.entries, prop) ELSE FALSE

\* an ownKeys trap that also lists DB_HOST when the captured environment has it
HandlerOwnKeysListsOsKeys(env, vars) ==
    (IF ~vars.null THEN MapKeys(vars.entries) ELSE <<>>)
    \o (IF env["DB_HOST"] # Undef THEN <<"DB_HOST">> ELSE <<>>)
    \o (IF env[URL_KEY] # Undef THEN <<URL_KEY>> ELSE <<>>)
    \o (IF env[API_KEY] # Undef THEN <<API_KEY>> ELSE <<>>)

HandlerOwnKeys(env, vars) ==
    (IF ~vars.null THEN MapKeys(vars.entries) ELSE <<>>)
    \o (IF env[URL_KEY] # Undef THEN <<URL_KEY>> ELSE <<>>)
    \o (IF env[API_KEY] # Undef THEN <<API_KEY>> ELSE <<>>)

NoDescriptor == [defined |-> FALSE]

\* a descriptor trap that takes the value from the fetched map
HandlerDescriptorFromStore(env, vars, prop) ==
    IF HandlerHas(env, vars, prop)
    THEN [defined |-> TRUE, enumerable |-> TRUE, configurable |-> TRUE,
          value |-> MapGet(vars.entries, prop)]
    ELSE NoDescriptor

HandlerGetOwnPropertyDescriptor(env, vars, prop) ==
    IF HandlerHas(env, vars, prop)
    THEN [defined |-> TRUE, enumerable |-> TRUE, configurable |-> TRUE,
          value |-> HandlerGet(env, vars, prop)]
    ELSE NoDescriptor

HasDuplicates(keys) ==
    \E i, j \in 1..Len(keys) : i # j /\ keys[i] = keys[j]

\* Reflect.ownKeys / Object.keys on the Proxy: the engine rejects an ownKeys
\* trap result that lists a key twice with a TypeError.
ProxyOwnKeysThrows(env, vars) == HasDuplicates(HandlerOwnKeys(env, vars))

\* ------------------------------------------------------------ the fetch
\* `!url`, `!apiKey`: undefined and the empty string are falsy
Falsy(x) == x = Undef \/ x = ""

MissingUrlError == <<"NOT_ENV_URL environment variable is required">>
MissingApiKeyError == <<"NOT_ENV_API_KEY environment variable is required">>
\* new URL(url) throws inside the Promise executor, which rejects the promise
InvalidUrlError == <<"Invalid URL">>
NoError == <<>>

\* The synchronous part of register(): the two checks, then fetchVariables up
\* to req.end().  sent says whether a request went out; err is the rejection.
RegisterSyncNoKeyCheck(url, apiKey) ==
    IF Falsy(url) THEN [sent |-> FALSE, err |-> MissingUrlError]
    ELSE IF url \notin WellFormedUrls THEN [sent |-> FALSE, err |-> InvalidUrlError]
    ELSE [sent |-> TRUE, err |-> NoError]

RegisterSyncNoUrlCheck(url, apiKey) ==
    IF Falsy(url) THEN [sent |-> FALSE, err |-> MissingUrlError]
    ELSE IF Falsy(apiKey) THEN [sent |-> FALSE, err |-> MissingApiKeyError]
    ELSE [sent |-> TRUE, err |-> NoError]

RegisterSyncLeaksKey(url, apiKey) ==
    IF Falsy(url) THEN [sent |-> FALSE, err |-> MissingUrlError]
    ELSE IF Falsy(apiKey) THEN [sent |-> FALSE, err |-> MissingApiKeyError]
    ELSE IF url \notin WellFormedUrls
         THEN [sent |-> FALSE, err |-> InvalidUrlError \o <<apiKey>>]
    ELSE [sent |-> TRUE, err |-> NoError]

RegisterSync(url, apiKey) ==
    IF Falsy(url) THEN [sent |-> FALSE, err |-> MissingUrlError]
    ELSE IF Falsy(apiKey) THEN [sent |-> FALSE, err |-> MissingApiKeyError]
    ELSE IF url \notin WellFormedUrls THEN [sent |-> FALSE, err |-> InvalidUrlError]
    ELSE [sent |-> TRUE, err |-> NoError]

\* what the server may answer
Statuses == {200, 401}
ErrorFields == {Undef, "unauthorized"}
MessageFields == {Undef, "bad key"}
OkResponses ==
    { [status |-> 200, json |-> TRUE, variables |-> l] : l \in VariableLists }
MalformedResponses ==
    { [status |-> st, json |-> FALSE, text |-> "<html>"] : st \in Statuses }
ErrorResponses ==
    { [status |-> 401, json |-> TRUE, error |-> e, message |-> m] :
        e \in ErrorFields, m \in MessageFields }
Responses == OkResponses \cup MalformedResponses \cup ErrorResponses

ResponseErrorParseAsFetch(res) ==
    IF res.status # 200
    THEN IF res.json
         THEN <<"Failed to fetch variables: ",
                IF res.error # Undef THEN res.error ELSE ToString(res.status),
                " - ",
                IF res.message # Undef THEN res.message ELSE "">>
         ELSE <<"Failed to fetch variables: HTTP ", ToString(res.status)>>
    ELSE IF res.json THEN NoError
    ELSE <<"Failed to fetch variables: ", "Unexpected token">>

\* the response callback of client.request: the map to resolve with, or the
\* Error to reject with
ResponseError(res) ==
    IF res.status # 200
    THEN IF res.json
         THEN <<"Failed to fetch variables: ",
                IF res.error # Undef THEN res.error ELSE ToString(res.status),
                " - ",
                IF res.message # Undef THEN res.message ELSE "">>
         ELSE <<"Failed to fetch variables: HTTP ", ToString(res.status)>>
    ELSE IF res.json THEN NoError
    ELSE <<"Failed to parse response: ", "Unexpected token">>

ResponseMap(res) == BuildVarMap(<<>>, res.variables)

\* req.on('error')
RequestError == <<"Request failed: ", "ECONNREFUSED">>

\* ------------------------------------------------------------- the state
VARIABLES
    osEnv,        \* the process's real environment (the Proxy's target)
    originalEnv,  \* const originalEnv = { ...process.env }
    notEnvVars,   \* let notEnvVars: Map<string, string> | null
    installs,     \* how many times process.env = new Proxy(...) has run
    calls,        \* the invocations of register(), calls[1] the one at load
    requests,     \* the requests sent: the url and the bearer credential
    proc,         \* whether process.exit ran, and with which status
    stderr,       \* what console.error wrote
    result,       \* the access to process.env made by the last step, if any
    received,     \* the response handled by the last step, if any
    twinEnv,      \* originalEnv of a second process (non-interference)
    twinResult,   \* the same access made in the second process
    twinStderr    \* what console.error wrote in a process started with
                  \* another credential

coreVars == <<osEnv, originalEnv, notEnvVars, installs, calls, requests, proc,
              stderr, result, received>>
twinVars == <<twinEnv, twinResult, twinStderr>>
vars == <<coreVars, twinVars>>

ExitFailure == 1
NoResult == [op |-> "none"]

Installed == installs > 0
Running == ~proc.exited
\* the module has been loaded and application code runs
Loaded == Len(calls) >= 1 /\ Running

\* process.env.X as register() reads it: through the Proxy once installed
EnvRead(prop) ==
    IF Installed THEN HandlerGet(originalEnv, notEnvVars, prop) ELSE osEnv[prop]

Call(top, st, err) == [top |-> top, st |-> st, err |-> err]

InitCore ==
    /\ osEnv \in OsEnvs
    /\ originalEnv = osEnv
    /\ notEnvVars = NullVars
    /\ installs = 0
    /\ calls = <<>>
    /\ requests = <<>>
    /\ proc = [exited |-> FALSE, status |-> 0]
    /\ stderr = <<>>
    /\ result = NoResult
    /\ received = <<>>

Init ==
    /\ InitCore
    /\ twinEnv = osEnv
    /\ twinResult = NoResult
    /\ twinStderr = <<>>

\* ------------------------------------------------------------- register()
\* An invocation of register() up to its await.  The rejection of the call
\* made at load is handled by .catch in a later microtask (st = "rejected",
\* err the Error); the rejection of any other call is handed to its caller
\* and leaves nothing in the module (st = "failed").
Invoke(top) ==
    LET url == EnvRead(URL_KEY)
        apiKey == EnvRead(API_KEY)
        r == RegisterSync(url, apiKey)
    IN /\ calls' = Append(calls,
                     IF r.sent THEN Call(top, "waiting", NoError)
                     ELSE IF top THEN Call(TRUE, "rejected", r.err)
                     ELSE Call(FALSE, "failed", NoError))
       /\ requests' = IF r.sent
                      THEN Append(requests, [url |-> url, apiKey |-> apiKey])
                      ELSE requests
       /\ result' = NoResult
       /\ received' = <<>>
       /\ UNCHANGED <<osEnv, originalEnv, notEnvVars, installs, proc, stderr>>

\* register().catch(...) at the end of the module
LoadRegister ==
    /\ calls = <<>>
    /\ Invoke(TRUE)

\* application code calls the exported register
RegisterAgain ==
    /\ Loaded
    /\ Len(calls) < MaxCalls
    /\ Invoke(FALSE)

\* console.error('Failed to initialize not-env-sdk:', error)
Diagnostic(err) == <<"Failed to initialize not-env-sdk:">> \o err

\* console.error('Failed to initialize not-env-sdk:', error); process.exit(1)
CatchExit(c, err) ==
    /\ stderr' = Append(stderr, Diagnostic(err))
    /\ proc' = [exited |-> TRUE, status |-> ExitFailure]
    /\ calls' = [calls EXCEPT ![c] = Call(TRUE, "failed", err)]

\* the .catch microtask of the call made at load, after a synchronous throw
CatchRejected ==
    /\ Loaded
    /\ calls[1].st = "rejected"
    /\ CatchExit(1, calls[1].err)
    /\ result' = NoResult
    /\ received' = <<>>
    /\ UNCHANGED <<osEnv, originalEnv, notEnvVars, installs, requests>>

\* a rejection that arrives from the network: the call made at load exits
\* the process, any other call rejects to its caller
Reject(c, err) ==
    IF calls[c].top
    THEN CatchExit(c, err)
    ELSE /\ calls' = [calls EXCEPT ![c] = Call(FALSE, "failed", NoError)]
         /\ UNCHANGED <<proc, stderr>>

\* the response arrives: on 200 with a JSON body the await resumes,
\* notEnvVars is assigned and process.env is replaced by the Proxy
Respond(c, res) ==
    /\ Running
    /\ c \in 1..Len(calls)
    /\ calls[c].st = "waiting"
    /\ IF ResponseError(res) = NoError
       THEN /\ notEnvVars' = MapVars(ResponseMap(res))
            /\ installs' = installs + 1
            /\ calls' = [calls EXCEPT ![c].st = "done"]
            /\ UNCHANGED <<proc, stderr>>
       ELSE /\ Reject(c, ResponseError(res))
            /\ UNCHANGED <<notEnvVars, installs>>
    /\ result' = NoResult
    /\ received' = <<res>>
    /\ UNCHANGED <<osEnv, originalEnv, requests>>

\* the request fails (connection refused, reset, ...)
RequestFails(c) ==
    /\ Running
    /\ c \in 1..Len(calls)
    /\ calls[c].st = "waiting"
    /\ Reject(c, RequestError)
    /\ result' = NoResult
    /\ received' = <<>>
    /\ UNCHANGED <<osEnv, originalEnv, notEnvVars, installs, requests>>

\* ------------------------------------------- application code: process.env
\* What each access returns, as a record.  via says who answered: the Proxy
\* handler, or the real environment when no Proxy is installed yet.
GetResult(env, vs, k) ==
    [op |-> "get", via |-> "proxy", key |-> k, out |-> HandlerGet(env, vs, k)]

SetResult(env, k, v) ==
    [op |-> "set", via |-> "proxy", key |-> k, arg |-> v,
     out |-> HandlerSet(env, k, v).ok]

HasResult(env, vs, k) ==
    [op |-> "has", via |-> "proxy", key |-> k, out |-> HandlerHas(env, vs, k)]

OwnKeysResult(env, vs) ==
    [op |-> "ownKeys", via |-> "proxy", out |-> HandlerOwnKeys(env, vs),
     threw |-> ProxyOwnKeysThrows(env, vs)]

DescriptorResult(env, vs, k) ==
    [op |-> "getOwnPropertyDescriptor", via |-> "proxy", key |-> k,
     out |-> HandlerGetOwnPropertyDescriptor(env, vs, k)]

RawGetResult(env, k) == [op |-> "get", via |-> "raw", key |-> k, out |-> env[k]]

\* process.env.K while the fetch is pending: no Proxy yet, the real
\* environment answers
RawGet(k) ==
    /\ Loaded
    /\ ~Installed
    /\ result' = RawGetResult(osEnv, k)
    /\ received' = <<>>
    /\ UNCHANGED <<osEnv, originalEnv, notEnvVars, installs, calls, requests,
                   proc, stderr>>

\* a read that caches what it returns in originalEnv
GetWritesSnapshot(k) ==
    /\ Loaded
    /\ Installed
    /\ result' = GetResult(originalEnv, notEnvVars, k)
    /\ originalEnv' = [originalEnv EXCEPT ![k] = HandlerGet(originalEnv, notEnvVars, k)]
    /\ received' = <<>>
    /\ UNCHANGED <<osEnv, notEnvVars, installs, calls, requests, proc, stderr>>

\* process.env.K
Get(k) ==
    /\ Loaded
    /\ Installed
    /\ result' = GetResult(originalEnv, notEnvVars, k)
    /\ received' = <<>>
    /\ UNCHANGED <<osEnv, originalEnv, notEnvVars, installs, calls, requests,
                   proc, stderr>>

\* process.env.K = v
Set(k, v) ==
    /\ Loaded
    /\ Installed
    /\ originalEnv' = HandlerSet(originalEnv, k, v).env
    /\ result' = SetResult(originalEnv, k, v)
    /\ received' = <<>>
    /\ UNCHANGED <<osEnv, notEnvVars, installs, calls, requests, proc, stderr>>

\* K in process.env
Has(k) ==
    /\ Loaded
    /\ Installed
    /\ result' = HasResult(originalEnv, notEnvVars, k)
    /\ received' = <<>>
    /\ UNCHANGED <<osEnv, originalEnv, notEnvVars, installs, calls, requests,
                   proc, stderr>>

\* Reflect.ownKeys(process.env), Object.keys(process.env)
OwnKeys ==
    /\ Loaded
    /\ Installed
    /\ result' = OwnKeysResult(originalEnv, notEnvVars)
    /\ received' = <<>>
    /\ UNCHANGED <<osEnv, originalEnv, notEnvVars, installs, calls, requests,
                   proc, stderr>>

\* Object.getOwnPropertyDescriptor(process.env, K)
GetOwnPropertyDescriptor(k) ==
    /\ Loaded
    /\ Installed
    /\ result' = DescriptorResult(originalEnv, notEnvVars, k)
    /\ received' = <<>>
    /\ UNCHANGED <<osEnv, originalEnv, notEnvVars, installs, calls, requests,
                   proc, stderr>>

\* ------------------------------------------------------ the specification
Next ==
    \/ LoadRegister /\ UNCHANGED twinVars
    \/ RegisterAgain /\ UNCHANGED twinVars
    \/ CatchRejected /\ UNCHANGED twinVars
    \/ \E c \in 1..MaxCalls, res \in Responses : Respond(c, res) /\ UNCHANGED twinVars
    \/ \E c \in 1..MaxCalls : RequestFails(c) /\ UNCHANGED twinVars
    \/ \E k \in Keys : RawGet(k) /\ UNCHANGED twinVars
    \/ \E k \in Keys : Get(k) /\ UNCHANGED twinVars
    \/ \E k \in Keys : \E v \in EnvValues(k) : Set(k, v) /\ UNCHANGED twinVars
    \/ \E k \in Keys : Has(k) /\ UNCHANGED twinVars
    \/ OwnKeys /\ UNCHANGED twinVars
    \/ \E k \in Keys : GetOwnPropertyDescriptor(k) /\ UNCHANGED twinVars

Spec == Init /\ [][Next]_vars

\* ------------------------------------------------ two processes side by side
\* A second process receives the same responses and the same accesses as the
\* first; its OS environment agrees with the first on NOT_ENV_URL and
\* NOT_ENV_API_KEY and is arbitrary elsewhere.  register() reads only those
\* two coordinates, so both processes send the same requests and share calls,
\* notEnvVars and installs; the second keeps its own originalEnv (twinEnv).
TwinEnvs(os) ==
    { e \in [Keys -> {Undef, "", "http://x", "localhost", "other", "k1"}] :
        /\ \A p \in PreservedKeys : e[p] = os[p]
        /\ e["DB_HOST"] \in {Undef, "other"} }

InitNI ==
    /\ InitCore
    /\ twinEnv \in TwinEnvs(osEnv)
    /\ twinResult = NoResult
    /\ twinStderr = <<>>

TwinIdle == twinResult' = NoResult /\ UNCHANGED <<twinEnv, twinStderr>>
TwinRawGet(k) ==
    twinResult' = RawGetResult(twinEnv, k) /\ UNCHANGED <<twinEnv, twinStderr>>
TwinGet(k) ==
    /\ twinResult' = GetResult(twinEnv, notEnvVars, k)
    /\ UNCHANGED <<twinEnv, twinStderr>>
TwinSet(k, v) ==
    /\ twinEnv' = HandlerSet(twinEnv, k, v).env
    /\ twinResult' = SetResult(twinEnv, k, v)
    /\ UNCHANGED twinStderr
TwinHas(k) ==
    /\ twinResult' = HasResult(twinEnv, notEnvVars, k)
    /\ UNCHANGED <<twinEnv, twinStderr>>
TwinOwnKeys ==
    /\ twinResult' = OwnKeysResult(twinEnv, notEnvVars)
    /\ UNCHANGED <<twinEnv, twinStderr>>
TwinGetOwnPropertyDescriptor(k) ==
    /\ twinResult' = DescriptorResult(twinEnv, notEnvVars, k)
    /\ UNCHANGED <<twinEnv, twinStderr>>

NextNI ==
    \/ LoadRegister /\ TwinIdle
    \/ RegisterAgain /\ TwinIdle
    \/ CatchRejected /\ TwinIdle
    \/ \E c \in 1..MaxCalls, res \in Responses : Respond(c, res) /\ TwinIdle
    \/ \E c \in 1..MaxCalls : RequestFails(c) /\ TwinIdle
    \/ \E k \in Keys : RawGet(k) /\ TwinRawGet(k)
    \/ \E k \in Keys : Get(k) /\ TwinGet(k)
    \/ \E k \in Keys : \E v \in EnvValues(k) : Set(k, v) /\ TwinSet(k, v)
    \/ \E k \in Keys : Has(k) /\ TwinHas(k)
    \/ OwnKeys /\ TwinOwnKeys
    \/ \E k \in Keys : GetOwnPropertyDescriptor(k) /\ TwinGetOwnPropertyDescriptor(k)

SpecNI == InitNI /\ [][NextNI]_vars

\* ------------------------------------------- two processes, two credentials
\* A second process is started with another credential in NOT_ENV_API_KEY
\* (an absent or empty credential stays as it is) and with the same
\* NOT_ENV_URL, and meets the same server: the same responses and the same
\* request failures.  Both credentials being present or both absent, the two
\* processes make the same calls; twinStderr is what the second one writes.
TwinCredential(apiKey) == IF apiKey = "k1" THEN "k2" ELSE apiKey

CredIdle == UNCHANGED twinVars

\* the .catch of the second process after the synchronous throw at load
TwinCatchRejected ==
    /\ twinStderr' =
          Append(twinStderr,
                 Diagnostic(RegisterSync(osEnv[URL_KEY],
                                         TwinCredential(osEnv[API_KEY])).err))
    /\ UNCHANGED <<twinEnv, twinResult>>

TwinReject(c, err) ==
    /\ twinStderr' = IF calls[c].top THEN Append(twinStderr, Diagnostic(err))
                     ELSE twinStderr
    /\ UNCHANGED <<twinEnv, twinResult>>

TwinRespond(c, res) ==
    IF ResponseError(res) = NoError THEN UNCHANGED twinVars
    ELSE TwinReject(c, ResponseError(res))

TwinRequestFails(c) == TwinReject(c, RequestError)

NextCred ==
    \/ LoadRegister /\ CredIdle
    \/ RegisterAgain /\ CredIdle
    \/ CatchRejected /\ TwinCatchRejected
    \/ \E c \in 1..MaxCalls, res \in Responses : Respond(c, res) /\ TwinRespond(c, res)
    \/ \E c \in 1..MaxCalls : RequestFails(c) /\ TwinRequestFails(c)
    \/ \E k \in Keys : RawGet(k) /\ CredIdle
    \/ \E k \in Keys : Get(k) /\ CredIdle
    \/ \E k \in Keys : \E v \in EnvValues(k) : Set(k, v) /\ CredIdle
    \/ \E k \in Keys : Has(k) /\ CredIdle
    \/ OwnKeys /\ CredIdle
    \/ \E k \in Keys : GetOwnPropertyDescriptor(k) /\ CredIdle

SpecCred == Init /\ [][NextCred]_vars

\* ------------------------------------------------------------- scheduling
\* The .catch reaction of a rejected promise is a microtask: Node runs it as
\* soon as the running code returns to the event loop.  Nothing in the module
\* obliges the server to answer, and the code sets no timer on the request.
SpecLive == Init /\ [][Next]_vars /\ WF_vars(CatchRejected /\ UNCHANGED twinVars)

\* ------------------------------------------------------------ properties
\* the Variable Store, as the properties speak of it
StoreHolds(k) ==
    ~notEnvVars.null /\ \E i \in 1..Len(notEnvVars.entries) : notEnvVars.entries[i].key = k
StoreValueIs(k, v) ==
    ~notEnvVars.null /\ \E i \in 1..Len(notEnvVars.entries) :
        notEnvVars.entries[i] = [key |-> k, value |-> v]
ByProxy(op) == result.op = op /\ result.via = "proxy"

\* C1: once installed, a read of a key other than NOT_ENV_URL and
\* NOT_ENV_API_KEY returns the Variable Store's value when the store holds the
\* key and undefined otherwise, whatever the OS environment holds for it.
C1_ReadResolvesAgainstStore ==
    /\ (ByProxy("get") /\ result.key \notin PreservedKeys) =>
          IF StoreHolds(result.key) THEN StoreValueIs(result.key, result.out)
          ELSE result.out = Undef
    /\ Installed =>
          \A k \in OtherKeys :
             IF StoreHolds(k)
             THEN StoreValueIs(k, HandlerGet(originalEnv, notEnvVars, k))
             ELSE HandlerGet(originalEnv, notEnvVars, k) = Undef

\* a read of DB_HOST answered "other" from the store while the OS holds "localhost"
C1_Witness ==
    /\ ByProxy("get") /\ result.key = "DB_HOST" /\ result.out = "other"
    /\ osEnv["DB_HOST"] = "localhost" /\ originalEnv["DB_HOST"] = "localhost"

\* C2: once installed, a read of NOT_ENV_URL or NOT_ENV_API_KEY returns the
\* current value of the Original Environment Snapshot, also when the Variable
\* Store holds an entry of the same name.
C2_PreservedReadFromSnapshot ==
    /\ (ByProxy("get") /\ result.key \in PreservedKeys) =>
          result.out = originalEnv[result.key]
    /\ Installed =>
          \A p \in PreservedKeys : HandlerGet(originalEnv, notEnvVars, p) = originalEnv[p]

\* a read of NOT_ENV_URL answered from the snapshot while the store holds
\* NOT_ENV_URL = "other"
C2_Witness ==
    /\ ByProxy("get") /\ result.key = URL_KEY /\ result.out = "http://x"
    /\ StoreValueIs(URL_KEY, "other")

\* C3: loading the module returns only after the facade is installed (or the
\* process has terminated): no read of application code is answered by the
\* real OS environment while the fetch is still pending.
C3_BootstrapBeforeUse ==
    ~(/\ result.op = "get" /\ result.via = "raw"
      /\ \E c \in 1..Len(calls) : calls[c].st = "waiting")

\* C4: a write of a key other than the two Preserved Keys returns false and
\* leaves the Variable Store, the snapshot and the result of read(k) unchanged.
C4_WriteOtherKeyFailsNoChange ==
    [][ (result'.op = "set" /\ result'.key \notin PreservedKeys) =>
           /\ result'.out = FALSE
           /\ originalEnv' = originalEnv
           /\ notEnvVars' = notEnvVars
           /\ HandlerGet(originalEnv', notEnvVars', result'.key)
                = HandlerGet(originalEnv, notEnvVars, result'.key) ]_vars

\* a refused write of DB_HOST, which the store holds and the OS holds too
C4_Witness ==
    /\ ByProxy("set") /\ result.key = "DB_HOST" /\ result.arg = "k1"
    /\ result.out = FALSE
    /\ StoreValueIs("DB_HOST", "other") /\ originalEnv["DB_HOST"] = "localhost"

\* C5: a write of a Preserved Key p with value v returns true and read(p)
\* is v afterwards; no step other than a write of p changes read(p).
C5_WritePreservedThenRead ==
    [][ /\ (result'.op = "set" /\ result'.key \in PreservedKeys) =>
              /\ result'.out = TRUE
              /\ HandlerGet(originalEnv', notEnvVars', result'.key) = result'.arg
        /\ \A p \in PreservedKeys :
              (Installed /\ ~(result'.op = "set" /\ result'.key = p)) =>
                 HandlerGet(originalEnv', notEnvVars', p)
                   = HandlerGet(originalEnv, notEnvVars, p) ]_vars

\* a read of NOT_ENV_URL that returns the written empty string (with an
\* empty NOT_ENV_URL in the OS nothing is installed) while the store holds an
\* entry of that name
C5_Witness ==
    /\ ByProxy("get") /\ result.key = URL_KEY /\ result.out = ""
    /\ osEnv[URL_KEY] = "http://x"
    /\ StoreHolds(URL_KEY)

\* the set of elements of a sequence
Range(q) == { q[i] : i \in 1..Len(q) }
StoreKeySet == IF notEnvVars.null THEN {} ELSE Range(MapKeys(notEnvVars.entries))
PresentPreserved == { p \in PreservedKeys : originalEnv[p] # Undef }

\* C6: once installed, enumerate() yields exactly the Variable Store's keys
\* plus the Preserved Keys present in the snapshot, lists no key twice (also
\* when the store holds a key named like a Preserved Key) and does not fail.
C6_EnumerateExactNoDuplicates ==
    ByProxy("ownKeys") =>
        /\ Range(result.out) = StoreKeySet \cup PresentPreserved
        /\ ~HasDuplicates(result.out)
        /\ ~result.threw

\* C7: once installed, for a key other than the two Preserved Keys,
\* contains(k) is true exactly when read(k) is not undefined, that is exactly
\* when the Variable Store holds k; the OS environment has no say.
C7_ContainsOtherKeyIffStoreHolds ==
    /\ (ByProxy("has") /\ result.key \notin PreservedKeys) =>
          /\ result.out = StoreHolds(result.key)
          /\ result.out = (HandlerGet(originalEnv, notEnvVars, result.key) # Undef)
    /\ Installed =>
          \A k \in OtherKeys : HandlerHas(originalEnv, notEnvVars, k) = StoreHolds(k)

\* `"DB_HOST" in process.env` is false although the OS environment holds
\* DB_HOST, the store holding other keys only
C7_Witness ==
    /\ ByProxy("has") /\ result.key = "DB_HOST" /\ result.out = FALSE
    /\ osEnv["DB_HOST"] = "localhost" /\ originalEnv["DB_HOST"] = "localhost"
    /\ StoreHolds(API_KEY)

\* C8: for a Preserved Key p, contains(p) is the presence of p in the
\* snapshot, whatever the Variable Store holds: true when the snapshot holds
\* p with the empty string, false for a snapshot without p even if the store
\* has an entry named p.
C8_ContainsPreservedIffInSnapshot ==
    /\ (ByProxy("has") /\ result.key \in PreservedKeys) =>
          result.out = (originalEnv[result.key] # Undef)
    /\ Installed =>
          \A p \in PreservedKeys :
             /\ HandlerHas(originalEnv, notEnvVars, p) = (originalEnv[p] # Undef)
             /\ ~HandlerHas([originalEnv EXCEPT ![p] = Undef], notEnvVars, p)
             /\ HandlerHas([originalEnv EXCEPT ![p] = ""], notEnvVars, p)

\* `"NOT_ENV_URL" in process.env` is true while the snapshot holds the empty
\* string for it and the store has no such entry
C8_Witness ==
    /\ ByProxy("has") /\ result.key = URL_KEY /\ result.out = TRUE
    /\ originalEnv[URL_KEY] = ""
    /\ ~StoreHolds(URL_KEY)

\* contains and read as section 4.3 of the specification defines them
Contains(k) == IF k \in PreservedKeys THEN originalEnv[k] # Undef ELSE StoreHolds(k)
ReadIs(k, v) ==
    IF k \in PreservedKeys THEN v = originalEnv[k]
    ELSE IF StoreHolds(k) THEN StoreValueIs(k, v) ELSE v = Undef

\* C9: describe(k) returns a descriptor exactly when contains(k) is true; the
\* descriptor is enumerable and configurable and its value is read(k);
\* otherwise describe(k) returns "no descriptor".
C9_DescribeMatchesContainsAndRead ==
    ByProxy("getOwnPropertyDescriptor") =>
        /\ result.out.defined = Contains(result.key)
        /\ result.out.defined = HandlerHas(originalEnv, notEnvVars, result.key)
        /\ result.out.defined =>
              /\ result.out.enumerable
              /\ result.out.configurable
              /\ ReadIs(result.key, result.out.value)
              /\ result.out.value = HandlerGet(originalEnv, notEnvVars, result.key)
        /\ ~result.out.defined => result.out = NoDescriptor

\* a descriptor of NOT_ENV_API_KEY whose value is the snapshot's, while the
\* store holds another value under that name
C9_Witness ==
    /\ ByProxy("getOwnPropertyDescriptor") /\ result.key = API_KEY
    /\ result.out.defined /\ result.out.value = "k1"
    /\ StoreValueIs(API_KEY, "other")

\* C10: two processes that receive the same responses and agree on the OS
\* values of NOT_ENV_URL and NOT_ENV_API_KEY get the same result from every
\* read, write, contains, enumerate and describe on the facade, however
\* their other OS variables differ.
C10_NonInterference ==
    /\ \A p \in PreservedKeys : twinEnv[p] = originalEnv[p]
    /\ result.op # "none" /\ result.via = "proxy" => twinResult = result

\* a read of DB_HOST on the facade in two processes whose OS environments
\* differ in DB_HOST, the store not holding DB_HOST
C10_Witness ==
    /\ ByProxy("get") /\ result.key = "DB_HOST"
    /\ twinResult.op = "get"
    /\ originalEnv["DB_HOST"] = "localhost" /\ twinEnv["DB_HOST"] = "other"
    /\ ~StoreHolds("DB_HOST")

\* the call made at load has failed
BootstrapFailed == Len(calls) >= 1 /\ calls[1].st \in {"rejected", "failed"}

\* C11: every failure of the bootstrap writes a diagnostic to the error
\* stream and ends the process with exit status 1, the facade is not installed
\* and no store is observable on that path, and no application code runs
\* after the failure.
C11_FailureExitsBeforeAnyUse ==
    /\ BootstrapFailed => result.op = "none"
    /\ (Len(calls) >= 1 /\ calls[1].st = "failed") => proc.exited
    /\ proc.exited =>
          /\ proc.status = ExitFailure
          /\ Len(stderr) = 1
          /\ stderr[1][1] = "Failed to initialize not-env-sdk:"
          /\ ~Installed
          /\ notEnvVars.null

\* C12: with NOT_ENV_URL or NOT_ENV_API_KEY missing from the OS environment
\* (or empty) the bootstrap fails without sending any request, and the
\* diagnostic names the missing coordinate: one message for NOT_ENV_URL,
\* another for NOT_ENV_API_KEY.
C12_MissingCoordinateFailsBeforeRequest ==
    /\ MissingUrlError # MissingApiKeyError
    /\ (Len(calls) >= 1 /\ Falsy(osEnv[URL_KEY])) =>
          /\ requests = <<>>
          /\ BootstrapFailed /\ calls[1].err = MissingUrlError
          /\ proc.exited => stderr = <<Diagnostic(MissingUrlError)>>
    /\ (Len(calls) >= 1 /\ ~Falsy(osEnv[URL_KEY]) /\ Falsy(osEnv[API_KEY])) =>
          /\ requests = <<>>
          /\ BootstrapFailed /\ calls[1].err = MissingApiKeyError
          /\ proc.exited => stderr = <<Diagnostic(MissingApiKeyError)>>

\* the process has exited on a missing NOT_ENV_API_KEY, NOT_ENV_URL being
\* set, and no request was sent
C12_Witness ==
    /\ proc.exited /\ proc.status = ExitFailure
    /\ osEnv[URL_KEY] = "http://x" /\ osEnv[API_KEY] = Undef
    /\ stderr = <<Diagnostic(MissingApiKeyError)>>
    /\ requests = <<>>

\* a diagnostic, a sequence of pieces of text, has x among its pieces
Carries(d, x) == \E i \in 1..Len(d) : d[i] = x
\* the process has exited on the response res
ExitedOn(res) == proc.exited /\ received = <<res>>

\* C13: a response with a status s other than 200 fails the bootstrap with
\* a diagnostic that carries s, together with the error and message fields of
\* a JSON body, or the raw body when the body is not JSON.
C13_Non200CarriesStatusAndBody ==
    \A res \in Responses :
       (ExitedOn(res) /\ res.status # 200) =>
          /\ Len(stderr) = 1
          /\ Carries(stderr[1], ToString(res.status))
          /\ IF res.json
             THEN /\ res.error # Undef => Carries(stderr[1], res.error)
                  /\ res.message # Undef => Carries(stderr[1], res.message)
             ELSE Carries(stderr[1], res.text)

\* C14: a response with status 200 whose body is not JSON fails the
\* bootstrap with a parse failure, whose diagnostic differs, in its fixed
\* phrase already, from the diagnostic of every protocol failure (a status
\* other than 200) and from that of a network failure.
C14_ParseFailureDistinguishable ==
    \A res \in Responses :
       (ExitedOn(res) /\ res.status = 200) =>
          /\ ~res.json
          /\ Len(stderr) = 1
          /\ stderr[1][2] = "Failed to parse response: "
          /\ \A other \in Responses :
                other.status # 200 =>
                   /\ stderr[1] # Diagnostic(ResponseError(other))
                   /\ stderr[1][2] # ResponseError(other)[1]
          /\ stderr[1] # Diagnostic(RequestError)
          /\ stderr[1][2] # RequestError[1]

\* the process has exited on a 200 response with an HTML body
C14_Witness ==
    /\ proc.exited /\ proc.status = ExitFailure
    /\ received = <<[status |-> 200, json |-> FALSE, text |-> "<html>"]>>
    /\ stderr = <<Diagnostic(<<"Failed to parse response: ", "Unexpected token">>)>>

\* C15: the bootstrap terminates: a pending fetch is followed by Installed
\* or by the exit of the process, whatever the server does, a server that
\* never answers included.
C15_BootstrapTerminates ==
    (Len(calls) >= 1 /\ calls[1].st = "waiting") ~> (Installed \/ proc.exited)

\* how often key k occurs in a response list, the value of its last
\* occurrence, and how often x occurs in a sequence
Occurrences(l, k) == Cardinality({ i \in 1..Len(l) : l[i].key = k })
LastValue(l, k) ==
    l[CHOOSE i \in 1..Len(l) :
         l[i].key = k /\ \A j \in (i + 1)..Len(l) : l[j].key # k].value
CountIn(q, x) == Cardinality({ i \in 1..Len(q) : q[i] = x })

\* C16: the store built from a response list maps each key to the value of
\* its last occurrence in the list, and a key that occurs several times in
\* the list is listed exactly once by enumerate().
C16_LastWriteWinsListedOnce ==
    \A res \in OkResponses :
       received = <<res>> =>
          \A k \in ResponseKeys :
             /\ Occurrences(res.variables, k) = 0 => ~StoreHolds(k)
             /\ Occurrences(res.variables, k) >= 1 =>
                   StoreValueIs(k, LastValue(res.variables, k))
             /\ Occurrences(res.variables, k) > 1 =>
                   /\ CountIn(HandlerOwnKeys(originalEnv, notEnvVars), k) = 1
                   /\ ~ProxyOwnKeysThrows(originalEnv, notEnvVars)

\* C17: an invocation of register in an Installed state is a no-op: it sends
\* no request and leaves no fetch pending, the store is not replaced and
\* process.env is not wrapped again.
C17_RegisterAgainIsNoOp ==
    [][ (Installed /\ Len(calls') > Len(calls)) =>
           /\ requests' = requests
           /\ calls'[Len(calls')].st # "waiting"
           /\ notEnvVars' = notEnvVars
           /\ installs' = installs ]_vars

\* C18: once installed, read, contains, enumerate and describe return a
\* defined outcome and never raise, for every key and in every reachable
\* state, a store holding a key named like a Preserved Key included.
C18_LookupsTotalAndSilent ==
    /\ ByProxy("ownKeys") => ~result.threw
    /\ ByProxy("get") => result.out \in VarValues \cup {Undef} \cup
                                        UNION { EnvValues(k) : k \in Keys }
    /\ ByProxy("has") => result.out \in BOOLEAN
    /\ ByProxy("getOwnPropertyDescriptor") => result.out.defined \in BOOLEAN

\* C19: the store is the result of exactly one fetch: once built from the
\* first successful response, its mapping and key order never change, under
\* any sequence of operations and of invocations of register.
C19_StoreFromOneFetch ==
    [][ ~notEnvVars.null => notEnvVars' = notEnvVars ]_vars

\* C20: two bootstrap runs that differ only in the credential and meet the
\* same server write the same diagnostics, and no diagnostic has the
\* credential among its pieces.
C20_CredentialNotInDiagnostics ==
    /\ twinStderr = stderr
    /\ ~Falsy(osEnv[API_KEY]) =>
          \A i \in 1..Len(stderr) : ~Carries(stderr[i], osEnv[API_KEY])

\* both runs have exited on the malformed address "localhost", the one
\* holding the credential "k1" and the other another one
C20_Witness ==
    /\ proc.exited /\ Len(stderr) = 1 /\ twinStderr = stderr
    /\ osEnv[API_KEY] = "k1" /\ TwinCredential(osEnv[API_KEY]) # osEnv[API_KEY]
    /\ osEnv[URL_KEY] = "localhost"
    /\ stderr[1] = Diagnostic(InvalidUrlError)

\* C21: Installed is terminal: from an Installed state no facade operation
\* and no further invocation of register leads to the exit of the process,
\* to a newly pending fetch, or back to a state without Proxy or store.
C21_InstalledIsTerminal ==
    [][ Installed =>
           /\ installs' > 0
           /\ ~notEnvVars'.null
           /\ ~proc'.exited
           /\ { c \in 1..Len(calls') : calls'[c].st = "waiting" }
                 \subseteq { c \in 1..Len(calls) : calls[c].st = "waiting" } ]_vars

\* the keys of a response list, each at the position of its first occurrence
RECURSIVE FirstKeys(_)
FirstKeys(l) ==
    IF l = <<>> THEN <<>>
    ELSE LET front == FirstKeys(SubSeq(l, 1, Len(l) - 1))
             k == l[Len(l)].key
         IN IF k \in Range(front) THEN front ELSE Append(front, k)
\* NOT_ENV_URL and then NOT_ENV_API_KEY, those the snapshot holds
PresentPreservedSeq ==
    (IF originalEnv[URL_KEY] # Undef THEN <<URL_KEY>> ELSE <<>>)
      \o (IF originalEnv[API_KEY] # Undef THEN <<API_KEY>> ELSE <<>>)

\* C22: enumerate() returns the keys of the store first, in fetch order
\* (each key at the position of its first occurrence in the response), then
\* NOT_ENV_URL and then NOT_ENV_API_KEY, those present in the snapshot.
C22_EnumerateOrder ==
    /\ \A res \in OkResponses :
          received = <<res>> =>
             /\ MapKeys(notEnvVars.entries) = FirstKeys(res.variables)
             /\ HandlerOwnKeys(originalEnv, notEnvVars)
                   = FirstKeys(res.variables) \o PresentPreservedSeq
    /\ ByProxy("ownKeys") =>
          /\ ~result.threw
          /\ result.out = MapKeys(notEnvVars.entries) \o PresentPreservedSeq

\* C23: a write of a Preserved Key p changes the snapshot entry of p only:
\* the other Preserved Key, the other entries of the snapshot and the store
\* stay as they are and no request is sent; the snapshot's entries other than
\* the two Preserved Keys never change at all.
C23_WritePreservedFrame ==
    [][ /\ (result'.op = "set" /\ result'.key \in PreservedKeys) =>
              /\ \A k \in Keys \ {result'.key} : originalEnv'[k] = originalEnv[k]
              /\ originalEnv'[result'.key] = result'.arg
              /\ notEnvVars' = notEnvVars
              /\ installs' = installs
              /\ requests' = requests
              /\ calls' = calls
        /\ \A k \in OtherKeys :
              originalEnv'[k] = originalEnv[k] /\ originalEnv'[k] = osEnv'[k] ]_vars

\* NOT_ENV_URL has been overwritten with the empty string; NOT_ENV_API_KEY,
\* DB_HOST and a store holding DB_HOST are as before
C23_Witness ==
    /\ ByProxy("set") /\ result.key = URL_KEY /\ result.arg = "" /\ result.out
    /\ originalEnv[URL_KEY] = "" /\ osEnv[URL_KEY] = "http://x"
    /\ originalEnv[API_KEY] = "k1"
    /\ originalEnv["DB_HOST"] = "localhost"
    /\ StoreValueIs("DB_HOST", "other")
    /\ Len(requests) = 1

\* C24: a NOT_ENV_URL that is present but does not parse as a URL fails the
\* bootstrap, with a diagnostic and exit status 1, and no request is sent.
C24_MalformedUrlFailsBeforeRequest ==
    (Len(calls) >= 1 /\ ~Falsy(osEnv[URL_KEY]) /\ osEnv[URL_KEY] \notin WellFormedUrls) =>
       /\ requests = <<>>
       /\ BootstrapFailed
       /\ ~Installed
       /\ proc.exited =>
             /\ proc.status = ExitFailure
             /\ stderr = <<Diagnostic(IF Falsy(osEnv[API_KEY]) THEN MissingApiKeyError
                                      ELSE InvalidUrlError)>>

\* the process has exited with status 1 on NOT_ENV_URL = "localhost", the
\* credential being set, and no request was sent
C24_Witness ==
    /\ proc.exited /\ proc.status = ExitFailure
    /\ osEnv[URL_KEY] = "localhost" /\ osEnv[API_KEY] = "k1"
    /\ calls = <<Call(TRUE, "failed", InvalidUrlError)>>
    /\ requests = <<>>

\* the lookup r made once more, on snapshot env and store vs
Again(env, vs, r) ==
    CASE r.op = "get" -> GetResult(env, vs, r.key)
      [] r.op = "has" -> HasResult(env, vs, r.key)
      [] r.op = "ownKeys" -> OwnKeysResult(env, vs)
      [] r.op = "getOwnPropertyDescriptor" -> DescriptorResult(env, vs, r.key)

\* C25: read, contains, enumerate and describe leave the store, the snapshot
\* and the installation state unchanged, and the same lookup made again in
\* the state it leaves returns the same result.
C25_LookupsArePure ==
    [][ (result'.op \in {"get", "has", "ownKeys", "getOwnPropertyDescriptor"}
           /\ result'.via = "proxy") =>
           /\ notEnvVars' = notEnvVars
           /\ originalEnv' = originalEnv
           /\ installs' = installs
           /\ calls' = calls
           /\ requests' = requests
           /\ proc' = proc
           /\ Again(originalEnv', notEnvVars', result') = result' ]_vars

\* a describe of DB_HOST, held by the store, after NOT_ENV_URL was overwritten
C25_Witness ==
    /\ ByProxy("getOwnPropertyDescriptor") /\ result.key = "DB_HOST"
    /\ result.out.defined /\ result.out.value = "localhost"
    /\ originalEnv[URL_KEY] = "" /\ osEnv[URL_KEY] = "http://x"

\* C26: in every Installed state and for every key k, k is among the keys
\* enumerate() returns exactly when contains(k) is true, and exactly when
\* describe(k) returns a descriptor.
C26_PresenceViewsAgree ==
    /\ Installed =>
          \A k \in Keys :
             HandlerHas(originalEnv, notEnvVars, k)
               = HandlerGetOwnPropertyDescriptor(originalEnv, notEnvVars, k).defined
    /\ ByProxy("ownKeys") =>
          /\ ~result.threw
          /\ \A k \in Keys :
                (k \in Range(result.out)) = HandlerHas(originalEnv, notEnvVars, k)

\* C27: a Preserved Key that the snapshot holds stays in the snapshot:
\* contains of it stays true and enumerate() lists it in every later state.
C27_PreservedPresenceMonotone ==
    [][ \A p \in PreservedKeys :
           (Installed /\ originalEnv[p] # Undef) =>
              /\ originalEnv'[p] # Undef
              /\ HandlerHas(originalEnv', notEnvVars', p)
              /\ result'.op = "ownKeys" =>
                    (~result'.threw /\ p \in Range(result'.out)) ]_vars

====
